---- MODULE Spec2Model ----
(***************************************************************************)
(* A model of the PayPal worker (class MyWorker): the lazily resolved      *)
(* configuration, the OAuth token request, the four PayPal operations and  *)
(* the /success redirect handler.  Every await of an invocation is a       *)
(* suspension point: the awaits on getPayPalConfig(), on getAccessToken(), *)
(* on an outbound fetch, on response.json() and, in the /success handler,  *)
(* on capturePaypalOrder().  The outbound requests an invocation issued    *)
(* are kept with it until its caller takes the result.                     *)
(***************************************************************************)
EXTENDS Integers, Sequences, FiniteSets, TLC

(* ------------------------------ bounds -------------------------------- *)

\* invocation slots (frames that can be in flight on one instance)
NumInv == 3
\* the clock runs from 0 to MaxTime
MaxTime == 2

Invs == 1..NumInv

(* ----------------------- JavaScript values ---------------------------- *)

\* the value undefined (an omitted argument, a missing property)
Undefined == "<undefined>"
\* the value null (URLSearchParams.get of an absent parameter)
Null == "<null>"

\* `${v}` in a template literal
ToStr(v) == IF v = Undefined THEN "undefined" ELSE IF v = Null THEN "null" ELSE v

\* !v for a string-or-undefined-or-null value
Falsy(v) == v = Undefined \/ v = Null \/ v = ""

\* a parameter default (name: string = d): taken only when the argument is undefined
DefaultArg(v, d) == IF v = Undefined THEN d ELSE v

\* JSON.stringify leaves out a property whose value is undefined
OmitUndefined(obj, key) ==
  IF obj[key] = Undefined THEN [k \in DOMAIN obj \ {key} |-> obj[k]] ELSE obj

\* JSON.stringify of an object without undefined properties: a text is kept as
\* the value it denotes, tagged json
JSONstringify(obj) == [json |-> obj]

\* the object {}
EmptyObject == [k \in {} |-> Undefined]

\* assignment of the properties of g to the object f
Assign(f, g) == [k \in DOMAIN f \cup DOMAIN g |-> IF k \in DOMAIN g THEN g[k] ELSE f[k]]

\* a body that is no JSON text (an HTML error page of a proxy, a cut-off body)
Garbage == [garbage |-> "<html>Bad Gateway</html>"]

IsJson(text) == "json" \in DOMAIN text

\* JSON.parse of a JSON text
JSONparse(text) == text.json

(* ----------------------------- inputs --------------------------------- *)

\* the environments the instance can be bound to: the live credentials differ
\* from the sandbox ones
Envs ==
  {[PAYPAL_MODE |-> m, PAYPAL_CLIENT_ID |-> "sb-id", PAYPAL_CLIENT_SECRET |-> "sb-secret"] :
      m \in {Undefined, "", "sandbox"}}
  \cup {[PAYPAL_MODE |-> "live", PAYPAL_CLIENT_ID |-> "live-id", PAYPAL_CLIENT_SECRET |-> "live-secret"]}

Amounts == {"10.00", "7"}
Currencies == {Undefined, "", "EUR"}
Descriptions == {Undefined, "Widget"}
RefundAmounts == {Undefined, "", "5.00"}
Notes == {Undefined, "", "sorry"}
OrderIds == {"ORDER123"}
CaptureIds == {"CAP9"}
\* the token query parameter of /success: absent, empty, or an order id
QueryTokens == {Null, ""} \cup OrderIds
Paths == {"/success", "/cancel"}

NoArgs == [id |-> Undefined, amount |-> Undefined, currency |-> Undefined, text |-> Undefined]

\* the calls of the four tools: the operation and its arguments as passed
ToolCalls ==
  {[op |-> "createPaypalOrder", args |-> [id |-> Undefined, amount |-> a, currency |-> c, text |-> d]] :
      a \in Amounts, c \in Currencies, d \in Descriptions}
  \cup {[op |-> "capturePaypalOrder", args |-> [NoArgs EXCEPT !.id = o]] : o \in OrderIds}
  \cup {[op |-> "refundPaypalCapture", args |-> [id |-> k, amount |-> a, currency |-> c, text |-> n]] :
      k \in CaptureIds, a \in RefundAmounts, c \in Currencies, n \in Notes}
  \cup {[op |-> "getPaypalOrder", args |-> [NoArgs EXCEPT !.id = o]] : o \in OrderIds}

\* messages of the errors fetch() rejects with
NetworkErrors == {"Network connection lost."}
\* the messages of the SyntaxError response.json() rejects with on the body
\* Garbage: the text is the engine's, an older engine names the position, a
\* newer one quotes the start of the body
SyntaxErrorMsgs ==
  {"Unexpected token < in JSON at position 0",
   "Unexpected token '<', \"<html>Bad \"... is not valid JSON"}

\* bodies of the token endpoint
TokenBodies ==
  {[access_token |-> "A21-first", token_type |-> "Bearer", expires_in |-> 1],
   [access_token |-> "A21-second", token_type |-> "Bearer", expires_in |-> 2]}

\* responses of the token endpoint: status and body text
TokenResponses ==
  {[status |-> 200, text |-> JSONstringify(b)] : b \in TokenBodies}
  \cup {[status |-> 200, text |-> Garbage],
        [status |-> 401, text |-> JSONstringify([error |-> "invalid_client"])]}

CaptureBody ==
  [id |-> "ORDER123", status |-> "COMPLETED",
   purchase_units |-> << [payments |-> [captures |->
       << [amount |-> [value |-> "10.00", currency_code |-> "USD"]] >>]] >>]

\* capture bodies in which the path purchase_units[0].payments.captures[0].amount
\* breaks off, at each of its steps
IncompleteCaptureBodies ==
  {[purchase_units |-> <<>>],
   [purchase_units |-> << EmptyObject >>],
   [purchase_units |-> << [payments |-> EmptyObject] >>],
   [purchase_units |-> << [payments |-> [captures |-> <<>>]] >>],
   [purchase_units |-> << [payments |-> [captures |-> << EmptyObject >>]] >>]}

\* bodies of the operation endpoints
OpBodies ==
  {[id |-> "X"], CaptureBody, [name |-> "UNPROCESSABLE_ENTITY"]} \cup IncompleteCaptureBodies

OpStatuses == {200, 201, 422}

OpResponses ==
  {[status |-> s, text |-> JSONstringify(b)] :
      s \in OpStatuses, b \in OpBodies \ IncompleteCaptureBodies}
  \cup {[status |-> 200, text |-> JSONstringify(b)] : b \in IncompleteCaptureBodies}
  \cup {[status |-> s, text |-> Garbage] : s \in {200, 422}}

\* Response.ok
Ok(status) == status >= 200 /\ status <= 299

(* ------------------------------ state --------------------------------- *)

VARIABLES
  env,           \* this.env: the bindings of the instance
  paypalConfig,  \* this.paypalConfig: <<>> for null, <<config>> once resolved
  now,           \* the clock
  lastToken,     \* the token PayPal issued last: <<>>, or <<[value, obtainedAt, expires_in]>>
  inv            \* the invocations in flight, one frame per slot: where it is
                 \* suspended (pc), its arguments, its locals (config,
                 \* accessToken), the responses it received, how its
                 \* getAccessToken() ended (tokenResult), the requests it sent,
                 \* how the operation ended (completion) and the HTTP response

vars == <<env, paypalConfig, now, lastToken, inv>>

\* the frame of a slot no invocation runs in
Idle ==
  [pc |-> "idle", handler |-> "", op |-> "", args |-> NoArgs, token |-> Undefined,
   startedAt |-> 0, config |-> <<>>, tokenResult |-> <<>>, accessToken |-> Undefined,
   tokenResp |-> <<>>, opResp |-> <<>>, sent |-> <<>>,
   completion |-> <<>>, response |-> <<>>]

(* --------------------------- configuration ---------------------------- *)

\* a resolver that reads the environment on every call
getPayPalConfigRereads(cfg, e) ==
  << [mode |-> IF Falsy(e.PAYPAL_MODE) THEN "sandbox" ELSE e.PAYPAL_MODE,
      clientId |-> e.PAYPAL_CLIENT_ID,
      clientSecret |-> e.PAYPAL_CLIENT_SECRET] >>

\* getPayPalConfig: the value of this.paypalConfig after the call (which is also
\* the value returned)
getPayPalConfig(cfg, e) ==
  IF cfg = <<>>
  THEN << [mode |-> IF Falsy(e.PAYPAL_MODE) THEN "sandbox" ELSE e.PAYPAL_MODE,
           clientId |-> e.PAYPAL_CLIENT_ID,
           clientSecret |-> e.PAYPAL_CLIENT_SECRET] >>
  ELSE cfg

\* a host that ignores the mode
ApiHostAlwaysLive(config) == <<"api", ".paypal.com">>

\* the host of `https://api${config.mode === 'sandbox' ? '.sandbox' : ''}.paypal.com`,
\* as the pieces the template joins
ApiHost(config) ==
  <<"api">> \o (IF config.mode = "sandbox" THEN <<".sandbox">> ELSE <<>>) \o <<".paypal.com">>

\* btoa(`${config.clientId}:${config.clientSecret}`)
btoa(config) == [base64 |-> <<config.clientId, ":", config.clientSecret>>]

(* ------------------------- outbound requests -------------------------- *)

NoBody == [none |-> TRUE]

\* the request getAccessToken sends
TokenRequest(config) ==
  [kind |-> "token", method |-> "POST", host |-> ApiHost(config),
   path |-> <<"/v1/oauth2/token">>,
   authorization |-> [scheme |-> "Basic", credentials |-> btoa(config)],
   contentType |-> "application/x-www-form-urlencoded",
   body |-> [form |-> "grant_type=client_credentials"]]

\* a payment object whose currency is fixed
createPaypalOrderBodyFixedCurrency(amount, currency, description) ==
  JSONstringify(
    [intent |-> "CAPTURE",
     purchase_units |->
       << OmitUndefined([amount |-> [currency_code |-> "USD", value |-> amount],
                         description |-> description], "description") >>,
     application_context |->
       [return_url |-> "https://paypal-mcp.imbibed.workers.dev/success",
        cancel_url |-> "https://paypal-mcp.imbibed.workers.dev/cancel",
        user_action |-> "PAY_NOW"]])

\* the payment object of createPaypalOrder, as serialized into the request body
createPaypalOrderBody(amount, currency, description) ==
  JSONstringify(
    [intent |-> "CAPTURE",
     purchase_units |->
       << OmitUndefined([amount |-> [currency_code |-> currency, value |-> amount],
                         description |-> description], "description") >>,
     application_context |->
       [return_url |-> "https://paypal-mcp.imbibed.workers.dev/success",
        cancel_url |-> "https://paypal-mcp.imbibed.workers.dev/cancel",
        user_action |-> "PAY_NOW"]])

\* a refundRequest whose amount object is gated by the currency as well
refundPaypalCaptureBodyCurrencyGate(amount, currency, note) ==
  LET r0 == EmptyObject
      r1 == IF ~Falsy(amount) \/ currency # "USD"
            THEN Assign(r0, [amount |-> [currency_code |-> currency, value |-> ToStr(amount)]])
            ELSE r0
      r2 == IF ~Falsy(note) THEN Assign(r1, [note_to_payer |-> note]) ELSE r1
  IN  JSONstringify(r2)

\* the refundRequest object of refundPaypalCapture, as serialized into the request body
refundPaypalCaptureBody(amount, currency, note) ==
  LET r0 == EmptyObject
      r1 == IF ~Falsy(amount)
            THEN Assign(r0, [amount |-> [currency_code |-> currency, value |-> amount]])
            ELSE r0
      r2 == IF ~Falsy(note) THEN Assign(r1, [note_to_payer |-> note]) ELSE r1
  IN  JSONstringify(r2)

\* a header that carries a token kept from an earlier call
BearerStale(accessToken) == [scheme |-> "Bearer", token |-> "A21-first"]

\* the Authorization header of an operation request
Bearer(accessToken) == [scheme |-> "Bearer", token |-> ToStr(accessToken)]

\* the request an operation sends once it holds the access token
OpRequest(op, args, config, accessToken) ==
  LET base == [kind |-> "op", method |-> "POST", host |-> ApiHost(config),
               path |-> <<>>, authorization |-> Bearer(accessToken),
               contentType |-> "application/json", body |-> NoBody]
  IN  CASE op = "createPaypalOrder" ->
             [base EXCEPT !.path = <<"/v2/checkout/orders">>,
                          !.body = createPaypalOrderBody(args.amount,
                                     DefaultArg(args.currency, "USD"), args.text)]
        [] op = "capturePaypalOrder" ->
             [base EXCEPT !.path = <<"/v2/checkout/orders/", ToStr(args.id), "/capture">>]
        [] op = "refundPaypalCapture" ->
             [base EXCEPT !.path = <<"/v2/payments/captures/", ToStr(args.id), "/refund">>,
                          !.body = refundPaypalCaptureBody(args.amount,
                                     DefaultArg(args.currency, "USD"), args.text)]
        [] op = "getPaypalOrder" ->
             [base EXCEPT !.method = "GET",
                          !.path = <<"/v2/checkout/orders/", ToStr(args.id)>>]

(* ------------------------------ results ------------------------------- *)

\* { content: [{ type: 'text', text: JSON.stringify(envelope) }] }
ToolResult(envelope) ==
  [content |-> << [type |-> "text", text |-> JSONstringify(envelope)] >>]

\* one text shared by all four catch blocks
ErrorPrefixShared(op) == <<"Failed", "to", "create", "PayPal", "payment:">>

\* the static text of each operation's catch block, word by word
ErrorPrefix(op) ==
  CASE op = "createPaypalOrder"   -> <<"Failed", "to", "create", "PayPal", "payment:">>
    [] op = "capturePaypalOrder"  -> <<"Failed", "to", "capture", "PayPal", "payment:">>
    [] op = "refundPaypalCapture" -> <<"Failed", "to", "process", "refund:">>
    [] op = "getPaypalOrder"      -> <<"Failed", "to", "get", "order", "details:">>

\* how a call of an async function ends
Returned(value) == [kind |-> "return", value |-> <<value>>, message |-> ""]
Thrown(message) == [kind |-> "throw", value |-> <<>>, message |-> message]

\* an operation without its catch block: the error leaves the operation
OpCatchRethrows(op, message) == Thrown(message)

\* the catch block of an operation, entered with an error of the given message
OpCatch(op, message) ==
  Returned(ToolResult([success |-> FALSE, error |-> ErrorPrefix(op) \o <<message>>]))

\* an operation that reports a non-2xx response as an error of its own
OpReturnErrorOnFailure(status, result) ==
  IF Ok(status)
  THEN Returned(ToolResult([success |-> TRUE, data |-> result]))
  ELSE Returned(ToolResult([success |-> FALSE, error |-> <<"PayPal", "request", "failed">>]))

\* the return statement of an operation's try block
OpReturn(status, result) ==
  Returned(ToolResult([success |-> Ok(status), data |-> result]))

(* ------------------------ the /success handler ------------------------ *)

CorsHeaders ==
  [allowOrigin |-> "*", allowMethods |-> "GET, POST, OPTIONS",
   allowHeaders |-> "Content-Type, Authorization"]

\* new Response(body, {status, headers}); the status is 200 when none is given
HttpResponse(status, contentType, body) ==
  [status |-> status, contentType |-> contentType, cors |-> CorsHeaders, body |-> body]

\* a test that lets the empty token through
MissingTokenNullOnly(token) == token = Null

\* !token, the test of the token query parameter
MissingToken(token) == Falsy(token)

\* the response to a /success request without a token
MissingTokenResponse ==
  HttpResponse(400, "application/json", JSONstringify([error |-> "Missing token parameter"]))

\* resultData.data.purchase_units[0].payments.captures[0].amount can be read
\* (no TypeError on the way)
HasCaptureAmount(data) ==
  /\ "purchase_units" \in DOMAIN data
  /\ Len(data.purchase_units) >= 1
  /\ "payments" \in DOMAIN data.purchase_units[1]
  /\ "captures" \in DOMAIN data.purchase_units[1].payments
  /\ Len(data.purchase_units[1].payments.captures) >= 1
  /\ "amount" \in DOMAIN data.purchase_units[1].payments.captures[1]

\* the message of the TypeError the template throws on a body without the
\* capture amount: it names the property read from undefined
TypeErrorMsg(data) ==
  IF "purchase_units" \notin DOMAIN data
  THEN "Cannot read properties of undefined (reading '0')"
  ELSE IF Len(data.purchase_units) = 0
  THEN "Cannot read properties of undefined (reading 'payments')"
  ELSE IF "payments" \notin DOMAIN data.purchase_units[1]
  THEN "Cannot read properties of undefined (reading 'captures')"
  ELSE IF "captures" \notin DOMAIN data.purchase_units[1].payments
  THEN "Cannot read properties of undefined (reading '0')"
  ELSE IF Len(data.purchase_units[1].payments.captures) = 0
  THEN "Cannot read properties of undefined (reading 'amount')"
  ELSE "Cannot read properties of undefined (reading 'value')"

\* a property read that gives undefined when the property is missing
Prop(obj, key) == IF key \in DOMAIN obj THEN obj[key] ELSE Undefined

SuccessPage(token, data) ==
  [title |-> "Payment Successful",
   orderId |-> ToStr(token),
   status |-> ToStr(Prop(data, "status")),
   amount |-> LET a == data.purchase_units[1].payments.captures[1].amount
              IN  <<ToStr(Prop(a, "value")), ToStr(Prop(a, "currency_code"))>>]

\* the error page, with the message as the pieces that make it up
ErrorPage(message) == [title |-> "Payment Error", message |-> message]

\* a handler that answers every failed capture with a server error
RenderOutcomeFailureIs500(token, capture) ==
  IF capture.kind = "throw"
  THEN HttpResponse(500, "text/html", ErrorPage(<<capture.message>>))
  ELSE LET resultData == JSONparse(capture.value[1].content[1].text)
       IN  IF resultData.success
           THEN IF HasCaptureAmount(resultData.data)
                THEN HttpResponse(200, "text/html", SuccessPage(token, resultData.data))
                ELSE HttpResponse(500, "text/html",
                       ErrorPage(<<TypeErrorMsg(resultData.data)>>))
           ELSE HttpResponse(500, "text/html",
                  ErrorPage(IF "error" \in DOMAIN resultData /\ resultData.error # <<>>
                            THEN resultData.error
                            ELSE <<"An error occurred processing the payment.">>))

\* the rest of the try block of fetch once capturePaypalOrder(token) has ended,
\* and its catch block
RenderOutcome(token, capture) ==
  IF capture.kind = "throw"
  THEN HttpResponse(500, "text/html", ErrorPage(<<capture.message>>))
  ELSE LET resultData == JSONparse(capture.value[1].content[1].text)
       IN  IF resultData.success
           THEN IF HasCaptureAmount(resultData.data)
                THEN HttpResponse(200, "text/html", SuccessPage(token, resultData.data))
                ELSE HttpResponse(500, "text/html",
                       ErrorPage(<<TypeErrorMsg(resultData.data)>>))
           ELSE HttpResponse(200, "text/html",
                  ErrorPage(IF "error" \in DOMAIN resultData /\ resultData.error # <<>>
                            THEN resultData.error
                            ELSE <<"An error occurred processing the payment.">>))

(* ------------------------------ actions ------------------------------- *)

Init ==
  /\ env \in Envs
  /\ paypalConfig = <<>>
  /\ now = 0
  /\ lastToken = <<>>
  /\ inv = [i \in Invs |-> Idle]

InFlight == {i \in Invs : inv[i].pc # "idle"}

\* the slot a new invocation runs in: the first free one
FreeSlot(i) == inv[i].pc = "idle" /\ \A j \in Invs : j < i => inv[j].pc # "idle"

\* the frame of an operation that has just been called: getAccessToken has
\* called getPayPalConfig, which resolved the configuration, and awaits its
\* result; nothing has been sent
Started(handler, op, args, token, config) ==
  [Idle EXCEPT !.pc = "config_await", !.handler = handler, !.op = op, !.args = args,
               !.token = token, !.startedAt = now, !.config = <<config>>]

\* how getAccessToken() of frame f ended; the operation awaiting it resumes later
TokenSettled(f, result) ==
  [f EXCEPT !.pc = "token_settled", !.tokenResult = <<result>>]

\* a getAccessToken that refuses to request a token while another invocation
\* is requesting one, and throws instead
TokenRequestedUnlessRefreshing(f) ==
  IF \E j \in Invs : inv[j].pc = "token_fetch"
  THEN [f EXCEPT !.pc = "token_settled",
                 !.tokenResult = <<Thrown("Token request already in progress")>>]
  ELSE [f EXCEPT !.pc = "token_fetch", !.sent = <<TokenRequest(f.config[1])>>]

\* getAccessToken holds the configuration and has sent the token request
TokenRequested(f) ==
  [f EXCEPT !.pc = "token_fetch", !.sent = <<TokenRequest(f.config[1])>>]

\* the frame of an operation that has ended: a tool call is done, the /success
\* handler awaits the result of capturePaypalOrder
Finished(f, completion) ==
  [f EXCEPT !.pc = IF f.handler = "fetch" THEN "capture_returned" ELSE "done",
            !.completion = <<completion>>]

\* a tool call: one of the four operations is invoked and runs up to the
\* await on getPayPalConfig() in getAccessToken
Call(i, limit) ==
  /\ FreeSlot(i)
  /\ Cardinality(InFlight) < limit
  /\ \E c \in ToolCalls :
       LET cfg == getPayPalConfig(paypalConfig, env)
       IN  /\ paypalConfig' = cfg
           /\ inv' = [inv EXCEPT ![i] = Started("tool", c.op, c.args, Undefined, cfg[1])]
  /\ UNCHANGED <<env, now, lastToken>>

\* fetch(request): the /success route, up to its return or to the await on
\* getPayPalConfig() in getAccessToken; any other path goes to ProxyToSelf
HandleFetch(i, limit) ==
  /\ FreeSlot(i)
  /\ Cardinality(InFlight) < limit
  /\ \E path \in Paths, token \in QueryTokens :
       IF path # "/success"
       THEN /\ inv' = [inv EXCEPT ![i] = [Idle EXCEPT !.pc = "proxied", !.handler = "fetch",
                                                      !.token = token, !.startedAt = now]]
            /\ UNCHANGED paypalConfig
       ELSE IF MissingToken(token)
       THEN /\ inv' = [inv EXCEPT ![i] = [Idle EXCEPT !.pc = "done", !.handler = "fetch",
                                                      !.token = token, !.startedAt = now,
                                                      !.response = <<MissingTokenResponse>>]]
            /\ UNCHANGED paypalConfig
       ELSE LET cfg == getPayPalConfig(paypalConfig, env)
            IN  /\ paypalConfig' = cfg
                /\ inv' = [inv EXCEPT ![i] = Started("fetch", "capturePaypalOrder",
                                                     [NoArgs EXCEPT !.id = token], token, cfg[1])]
  /\ UNCHANGED <<env, now, lastToken>>

\* getAccessToken resumes with the configuration and sends the token request
SendTokenRequest(i) ==
  /\ inv[i].pc = "config_await"
  /\ inv' = [inv EXCEPT ![i] = TokenRequested(inv[i])]
  /\ UNCHANGED <<env, paypalConfig, now, lastToken>>

\* the fetch of getAccessToken settles: it rejects, or resolves with a response;
\* getAccessToken throws on a response that is not ok and calls response.json()
\* on one that is
TokenFetchSettles(i) ==
  /\ inv[i].pc = "token_fetch"
  /\ \/ \E m \in NetworkErrors :
          inv' = [inv EXCEPT ![i] = TokenSettled(inv[i], Thrown(m))]
     \/ \E r \in TokenResponses :
          IF ~Ok(r.status)
          THEN inv' = [inv EXCEPT ![i] =
                         TokenSettled([inv[i] EXCEPT !.tokenResp = <<r>>],
                                      Thrown("Failed to get PayPal access token"))]
          ELSE inv' = [inv EXCEPT ![i] = [@ EXCEPT !.pc = "token_json", !.tokenResp = <<r>>]]
  /\ UNCHANGED <<env, paypalConfig, now, lastToken>>

\* response.json() of getAccessToken settles: getAccessToken returns
\* data.access_token, or throws the SyntaxError
TokenJsonSettles(i) ==
  /\ inv[i].pc = "token_json"
  /\ LET f == inv[i]
         text == f.tokenResp[1].text
     IN  IF ~IsJson(text)
         THEN /\ \E m \in SyntaxErrorMsgs :
                   inv' = [inv EXCEPT ![i] = TokenSettled(f, Thrown(m))]
              /\ UNCHANGED lastToken
         ELSE LET data == JSONparse(text)
                  accessToken == Prop(data, "access_token")
              IN  /\ lastToken' = << [value |-> accessToken, obtainedAt |-> now,
                                      expires_in |-> data.expires_in] >>
                  /\ inv' = [inv EXCEPT ![i] = TokenSettled(f, Returned(accessToken))]
  /\ UNCHANGED <<env, paypalConfig, now>>

\* the operation resumes from its await on getAccessToken(): with the error in
\* its catch block, or with the token, and then it calls getPayPalConfig() and
\* awaits it
OperationResumes(i) ==
  /\ inv[i].pc = "token_settled"
  /\ LET f == inv[i]
         result == f.tokenResult[1]
     IN  IF result.kind = "throw"
         THEN /\ inv' = [inv EXCEPT ![i] = Finished(f, OpCatch(f.op, result.message))]
              /\ UNCHANGED paypalConfig
         ELSE LET cfg == getPayPalConfig(paypalConfig, env)
              IN  /\ paypalConfig' = cfg
                  /\ inv' = [inv EXCEPT ![i] =
                       [f EXCEPT !.pc = "op_config",
                                 !.accessToken = result.value[1],
                                 !.config = cfg]]
  /\ UNCHANGED <<env, now, lastToken>>

\* the operation resumes with the configuration and sends its request
SendOpRequest(i) ==
  /\ inv[i].pc = "op_config"
  /\ inv' = [inv EXCEPT ![i] =
       [@ EXCEPT !.pc = "op_fetch",
                 !.sent = Append(@, OpRequest(inv[i].op, inv[i].args, inv[i].config[1],
                                              inv[i].accessToken))]]
  /\ UNCHANGED <<env, paypalConfig, now, lastToken>>

\* the fetch of the operation settles: a rejection ends the operation in its
\* catch block, on a response the operation calls response.json()
OpFetchSettles(i) ==
  /\ inv[i].pc = "op_fetch"
  /\ \/ \E m \in NetworkErrors :
          inv' = [inv EXCEPT ![i] = Finished(inv[i], OpCatch(inv[i].op, m))]
     \/ \E r \in OpResponses :
          inv' = [inv EXCEPT ![i] = [@ EXCEPT !.pc = "op_json", !.opResp = <<r>>]]
  /\ UNCHANGED <<env, paypalConfig, now, lastToken>>

\* response.json() of the operation settles and the operation returns
OpJsonSettles(i) ==
  /\ inv[i].pc = "op_json"
  /\ LET f == inv[i]
         r == f.opResp[1]
     IN  IF IsJson(r.text)
         THEN inv' = [inv EXCEPT ![i] = Finished(f, OpReturn(r.status, JSONparse(r.text)))]
         ELSE \E m \in SyntaxErrorMsgs :
                inv' = [inv EXCEPT ![i] = Finished(f, OpCatch(f.op, m))]
  /\ UNCHANGED <<env, paypalConfig, now, lastToken>>

\* the /success handler resumes from its await on capturePaypalOrder(token) and
\* builds the response
Render(i) ==
  /\ inv[i].pc = "capture_returned"
  /\ inv' = [inv EXCEPT ![i] =
       [@ EXCEPT !.pc = "done",
                 !.response = <<RenderOutcome(inv[i].token, inv[i].completion[1])>>]]
  /\ UNCHANGED <<env, paypalConfig, now, lastToken>>

\* the caller takes the result (or the response); the slot is free again
TakeResult(i) ==
  /\ inv[i].pc \in {"done", "proxied"}
  /\ inv' = [inv EXCEPT ![i] = Idle]
  /\ UNCHANGED <<env, paypalConfig, now, lastToken>>

\* the bindings of the instance are replaced
EnvChange ==
  /\ \E e \in Envs \ {env} : env' = e
  /\ UNCHANGED <<paypalConfig, now, lastToken, inv>>

\* time passes
Tick ==
  /\ now < MaxTime
  /\ now' = now + 1
  /\ UNCHANGED <<env, paypalConfig, lastToken, inv>>

\* the steps of the instance with at most `limit` invocations in flight
Step(limit) ==
  \/ \E i \in Invs : Call(i, limit)
  \/ \E i \in Invs : HandleFetch(i, limit)
  \/ \E i \in Invs : SendTokenRequest(i)
  \/ \E i \in Invs : TokenFetchSettles(i)
  \/ \E i \in Invs : TokenJsonSettles(i)
  \/ \E i \in Invs : OperationResumes(i)
  \/ \E i \in Invs : SendOpRequest(i)
  \/ \E i \in Invs : OpFetchSettles(i)
  \/ \E i \in Invs : OpJsonSettles(i)
  \/ \E i \in Invs : Render(i)
  \/ \E i \in Invs : TakeResult(i)
  \/ EnvChange
  \/ Tick

\* every invocation runs to completion before the next one starts
Next == Step(1)

Spec == Init /\ [][Next]_vars

(* ----------------------- racing invocations --------------------------- *)

\* the calls, bindings and responses of the racing invocations: a call with a
\* request body (createPaypalOrder), one without (getPaypalOrder) and the
\* /success handler (capturePaypalOrder); the sandbox and the live bindings; the
\* token responses with a JSON body (two different tokens and a refusal) and
\* the response of a completed capture; no fetch rejects
RaceCalls ==
  {c \in ToolCalls :
     /\ c.op \in {"createPaypalOrder", "getPaypalOrder"}
     /\ c.args.amount \in {Undefined, "10.00"}
     /\ c.args.currency = Undefined
     /\ c.args.text = Undefined
     /\ c.op = "createPaypalOrder" => c.args.amount = "10.00"}

RaceTokenResponses == {r \in TokenResponses : IsJson(r.text)}

RaceEnvs == {e \in Envs : e.PAYPAL_MODE \in {"sandbox", "live"}}

RaceOpResponses ==
  {r \in OpResponses : r.status = 200 /\ r.text = JSONstringify(CaptureBody)}

\* the frames hold inputs of the racing invocations only
RaceInputs ==
  /\ env \in RaceEnvs
  /\ \A i \in Invs :
       /\ inv[i].pc # "proxied"
       /\ inv[i].handler = "tool" => [op |-> inv[i].op, args |-> inv[i].args] \in RaceCalls
       /\ inv[i].handler = "fetch" => inv[i].token \in OrderIds
       /\ inv[i].tokenResp # <<>> => inv[i].tokenResp[1] \in RaceTokenResponses
       /\ inv[i].opResp # <<>> => inv[i].opResp[1] \in RaceOpResponses
       /\ inv[i].tokenResult # <<>> => inv[i].tokenResp # <<>>
       /\ inv[i].completion # <<>> =>
            (Ok(inv[i].tokenResp[1].status) => inv[i].opResp # <<>>)

InitRace == Init /\ RaceInputs

\* the steps of invocations that overlap: each one can take its next step, and
\* a new one can start, while the others are suspended at any of their awaits;
\* the clock stands still during the race
NextRace ==
  \/ \E i \in Invs : Call(i, NumInv) /\ RaceInputs'
  \/ \E i \in Invs : HandleFetch(i, NumInv) /\ RaceInputs'
  \/ \E i \in Invs : SendTokenRequest(i)
  \/ \E i \in Invs : TokenFetchSettles(i) /\ RaceInputs'
  \/ \E i \in Invs : TokenJsonSettles(i)
  \/ \E i \in Invs : OperationResumes(i)
  \/ \E i \in Invs : SendOpRequest(i)
  \/ \E i \in Invs : OpFetchSettles(i) /\ RaceInputs'
  \/ \E i \in Invs : OpJsonSettles(i)
  \/ \E i \in Invs : Render(i)
  \/ \E i \in Invs : TakeResult(i)
  \/ EnvChange /\ RaceInputs'

SpecRace == InitRace /\ [][NextRace]_vars

(* ------------------------------ claims -------------------------------- *)

Frames == {inv[i] : i \in Invs}

\* frames of an operation (called as a tool or by the /success handler) that has ended
EndedOps == {f \in Frames : f.op # "" /\ f.completion # <<>>}

\* the envelope an operation returned
EnvelopeOf(f) == JSONparse(f.completion[1].value[1].content[1].text)

\* the operation request obtained a response whose body parsed as JSON
OpParsed(f) == Len(f.sent) = 2 /\ f.opResp # <<>> /\ IsJson(f.opResp[1].text)

\* an outbound call of the operation threw: the token fetch or the operation
\* fetch rejected, the token response was not 2xx, or a body was no JSON
OutboundThrew(f) == ~OpParsed(f)

WellFormedEnvelope(e) ==
  /\ "success" \in DOMAIN e
  /\ e.success \in BOOLEAN
  /\ DOMAIN e \in {{"success", "data"}, {"success", "error"}}

\* C1: whatever the outcome of its outbound calls, an operation that has ended
\* has returned a result envelope; none has ended by throwing to its caller.
C1_AlwaysReturnsEnvelope ==
  \A f \in EndedOps :
    /\ f.completion[1].kind = "return"
    /\ Len(f.completion[1].value) = 1
    /\ WellFormedEnvelope(EnvelopeOf(f))

\* a refund whose response body was no JSON has returned an envelope
C1_Witness ==
  \E f \in EndedOps :
    /\ f.op = "refundPaypalCapture"
    /\ f.opResp # <<>> /\ ~IsJson(f.opResp[1].text)
    /\ f.completion[1].kind = "return"
    /\ EnvelopeOf(f).success = FALSE

\* C2: when the token request succeeded and the operation's response body
\* parsed, the envelope is exactly {success: response.ok, data: parsed body}:
\* no error field, also for a non-2xx response.
C2_EnvelopeMirrorsResponse ==
  \A f \in EndedOps :
    OpParsed(f) =>
      /\ f.completion[1].kind = "return"
      /\ EnvelopeOf(f) = [success |-> Ok(f.opResp[1].status),
                          data |-> JSONparse(f.opResp[1].text)]
      /\ (f.opResp[1].status \in {200, 201} /\ JSONparse(f.opResp[1].text) = [id |-> "X"]
            => EnvelopeOf(f) = [success |-> TRUE, data |-> [id |-> "X"]])

\* a 422 response with a JSON error body came back as {success: false, data: body}
C2_Witness ==
  \E f \in EndedOps :
    /\ OpParsed(f)
    /\ f.opResp[1].status = 422
    /\ EnvelopeOf(f) = [success |-> FALSE, data |-> [name |-> "UNPROCESSABLE_ENTITY"]]

\* a token obtained before the invocation started is still valid at its start
ValidTokenAtStart(f) ==
  /\ lastToken # <<>>
  /\ lastToken[1].obtainedAt < f.startedAt
  /\ f.startedAt < lastToken[1].obtainedAt + lastToken[1].expires_in

TokenRequests(f) == {k \in 1..Len(f.sent) : f.sent[k].kind = "token"}

\* C3: an invocation that starts within the validity window of a token obtained
\* by an earlier invocation issues no token request (cache hit); an invocation
\* that starts with no valid token issues exactly one.
C3_TokenCached ==
  \A f \in Frames :
    (f.op # "" /\ f.pc # "config_await") =>
      IF ValidTokenAtStart(f)
      THEN TokenRequests(f) = {}
      ELSE Cardinality(TokenRequests(f)) = 1

AllOps == {"createPaypalOrder", "capturePaypalOrder", "refundPaypalCapture", "getPaypalOrder"}

\* frames of an operation, in progress or ended
OpFrames == {f \in Frames : f.op # ""}

SandboxHost == <<"api", ".sandbox", ".paypal.com">>
LiveHost == <<"api", ".paypal.com">>

C4_HostsFollowMode ==
  \A f \in Frames : \A k \in 1..Len(f.sent) :
    /\ paypalConfig # <<>>
    /\ paypalConfig[1].mode \in {"sandbox", "live"}
    /\ paypalConfig[1].mode = "sandbox" => f.sent[k].host = SandboxHost
    /\ paypalConfig[1].mode = "live" => f.sent[k].host = LiveHost

C4_ModeResolved ==
  (paypalConfig = <<>> /\ paypalConfig' # <<>>) =>
     paypalConfig'[1].mode = IF env.PAYPAL_MODE = "live" THEN "live" ELSE "sandbox"

\* C4: every outbound request (token and operation) goes to api.sandbox.paypal.com
\* when the configured mode is sandbox, also when the mode was absent or empty
\* and defaulted to sandbox, and to api.paypal.com when it is live; the requests
\* of one invocation never mix hosts.
C4_HostByMode == [](C4_HostsFollowMode) /\ [][C4_ModeResolved]_vars

\* with the mode absent from the environment both requests of an invocation
\* went to the sandbox host
C4_Witness ==
  \E f \in OpFrames :
    /\ env.PAYPAL_MODE = Undefined
    /\ paypalConfig = << [mode |-> "sandbox", clientId |-> "sb-id", clientSecret |-> "sb-secret"] >>
    /\ Len(f.sent) = 2
    /\ f.sent[1].host = SandboxHost /\ f.sent[2].host = SandboxHost

\* /success requests that have been answered
AnsweredSuccess == {f \in Frames : f.handler = "fetch" /\ f.pc = "done"}

\* the messages the error thrown inside the operation of frame f can carry
ThrownMessages(f) ==
  IF f.tokenResp = <<>> THEN NetworkErrors
  ELSE IF ~Ok(f.tokenResp[1].status) THEN {"Failed to get PayPal access token"}
  ELSE IF ~IsJson(f.tokenResp[1].text) THEN SyntaxErrorMsgs
  ELSE IF f.opResp = <<>> THEN NetworkErrors
  ELSE SyntaxErrorMsgs

\* C5, as claimed: no token gives 400; a capture whose outbound call raised an
\* exception gives 500 with an error page carrying the exception message; a
\* capture PayPal answered with a non-2xx status gives 200 with an error page.
C5_ThreeStatuses ==
  \A f \in AnsweredSuccess :
    LET r == f.response[1]
    IN  /\ Falsy(f.token) => r.status = 400
        /\ (~Falsy(f.token) /\ OutboundThrew(f)) =>
              /\ r.status = 500
              /\ r.body.title = "Payment Error"
              /\ r.body.message[Len(r.body.message)] \in ThrownMessages(f)
        /\ (~Falsy(f.token) /\ OpParsed(f) /\ ~Ok(f.opResp[1].status)) =>
              /\ r.status = 200
              /\ r.body.title = "Payment Error"

\* C5, amended: no token gives 400; a capture whose outbound call raised an
\* exception gives 200 with an error page carrying "Failed to capture PayPal
\* payment: <exception message>"; a capture PayPal answered with a non-2xx
\* status gives 200 with an error page; 500 is given exactly when the handler
\* itself throws, which it does on a 2xx body without the capture amount.
C5_StatusesAmended ==
  \A f \in AnsweredSuccess :
    LET r == f.response[1]
    IN  /\ Falsy(f.token) => r.status = 400
        /\ (~Falsy(f.token) /\ OutboundThrew(f)) =>
              /\ r.status = 200
              /\ r.contentType = "text/html"
              /\ r.body.title = "Payment Error"
              /\ Len(r.body.message) = 6
              /\ SubSeq(r.body.message, 1, 5) = <<"Failed", "to", "capture", "PayPal", "payment:">>
              /\ r.body.message[6] \in ThrownMessages(f)
        /\ (~Falsy(f.token) /\ OpParsed(f) /\ ~Ok(f.opResp[1].status)) =>
              /\ r.status = 200
              /\ r.body.title = "Payment Error"
        /\ r.status = 500 <=>
              /\ ~Falsy(f.token) /\ OpParsed(f) /\ Ok(f.opResp[1].status)
              /\ ~HasCaptureAmount(JSONparse(f.opResp[1].text))
        /\ r.status = 500 =>
              r.body = [title |-> "Payment Error",
                        message |-> <<TypeErrorMsg(JSONparse(f.opResp[1].text))>>]

\* a /success request whose token request was refused (401) was answered 200
\* with the error page
C5_Witness ==
  \E f \in AnsweredSuccess :
    /\ f.token = "ORDER123"
    /\ f.tokenResp # <<>> /\ f.tokenResp[1].status = 401
    /\ f.response[1].status = 200
    /\ f.response[1].body.title = "Payment Error"
    /\ f.response[1].body.message[6] = "Failed to get PayPal access token"

\* C6: a /success request with an absent or empty token is answered 400 with a
\* body naming the missing parameter, and from its receipt to its answer no
\* outbound request (token or capture) is issued.
C6_MissingTokenNoCall ==
  \A f \in Frames :
    (f.handler = "fetch" /\ f.pc # "proxied" /\ f.token \in {Null, ""}) =>
      /\ f.sent = <<>>
      /\ f.tokenResp = <<>> /\ f.opResp = <<>>
      /\ f.op = ""
      /\ f.pc = "done"
      /\ f.response[1].status = 400
      /\ JSONparse(f.response[1].body) = [error |-> "Missing token parameter"]

\* a /success request with an empty token was answered 400
C6_Witness ==
  \E f \in AnsweredSuccess :
    /\ f.token = ""
    /\ f.sent = <<>>
    /\ f.response[1].status = 400

\* the verb the claim gives for each operation
ClaimedVerb(op) ==
  CASE op = "createPaypalOrder"   -> "create"
    [] op = "capturePaypalOrder"  -> "capture"
    [] op = "refundPaypalCapture" -> "refund"
    [] op = "getPaypalOrder"      -> "get"

\* the verb each catch block has
ActualVerb(op) == IF op = "refundPaypalCapture" THEN "process" ELSE ClaimedVerb(op)

\* the error envelope of frame f reads "Failed to <verb> ...: <message thrown>"
ErrorEnvelopeWith(f, verb) ==
  LET e == EnvelopeOf(f)
  IN  /\ DOMAIN e = {"success", "error"}
      /\ e.success = FALSE
      /\ Len(e.error) >= 4
      /\ e.error[1] = "Failed" /\ e.error[2] = "to"
      /\ e.error[3] = verb
      /\ e.error[Len(e.error)] \in ThrownMessages(f)
      /\ \A op \in AllOps \ {f.op} :
            SubSeq(e.error, 1, Len(e.error) - 1) # ErrorPrefix(op)

\* C7, as claimed: when an outbound call throws, the envelope has success=false,
\* no data and the error "Failed to <verb> ...: <message>" with the verb create,
\* capture, refund or get of the operation.
C7_ErrorTextClaimedVerbs ==
  \A f \in EndedOps :
    OutboundThrew(f) => ErrorEnvelopeWith(f, ClaimedVerb(f.op))

\* C7, amended: the same, except that the text of refundCapture is "Failed to
\* process refund: <message>", so its verb is process.
C7_ErrorText ==
  \A f \in EndedOps :
    OutboundThrew(f) => ErrorEnvelopeWith(f, ActualVerb(f.op))

\* a refund whose operation fetch rejected returned "Failed to process refund: ..."
C7_Witness ==
  \E f \in EndedOps :
    /\ f.op = "refundPaypalCapture"
    /\ Len(f.sent) = 2 /\ f.opResp = <<>>
    /\ EnvelopeOf(f).error = <<"Failed", "to", "process", "refund:", "Network connection lost.">>

\* C8: the body createOrder sends has the amount string as passed, the currency
\* as passed or USD when it is omitted, intent CAPTURE and user_action PAY_NOW.
C8_CreateBody ==
  \A f \in OpFrames :
    (f.op = "createPaypalOrder" /\ Len(f.sent) = 2) =>
      LET b == JSONparse(f.sent[2].body)
      IN  /\ Len(b.purchase_units) = 1
          /\ b.purchase_units[1].amount.value = f.args.amount
          /\ b.purchase_units[1].amount.currency_code =
               IF f.args.currency = Undefined THEN "USD" ELSE f.args.currency
          /\ b.intent = "CAPTURE"
          /\ b.application_context.user_action = "PAY_NOW"

\* an order of 10.00 EUR was sent as value "10.00", currency_code "EUR"
C8_Witness ==
  \E f \in OpFrames :
    /\ f.op = "createPaypalOrder"
    /\ f.args.amount = "10.00" /\ f.args.currency = "EUR"
    /\ Len(f.sent) = 2
    /\ JSONparse(f.sent[2].body).purchase_units[1].amount =
         [currency_code |-> "EUR", value |-> "10.00"]

\* the body of the refund request of frame f has amount and note_to_payer
\* exactly under the given conditions, and nothing else
RefundBodyIs(f, hasAmount, hasNote) ==
  LET b == JSONparse(f.sent[2].body)
  IN  /\ DOMAIN b \subseteq {"amount", "note_to_payer"}
      /\ "amount" \in DOMAIN b <=> hasAmount
      /\ "amount" \in DOMAIN b =>
            b.amount = [currency_code |-> IF f.args.currency = Undefined THEN "USD"
                                          ELSE f.args.currency,
                        value |-> f.args.amount]
      /\ "note_to_payer" \in DOMAIN b <=> hasNote
      /\ "note_to_payer" \in DOMAIN b => b.note_to_payer = f.args.text

RefundSent == {f \in OpFrames : f.op = "refundPaypalCapture" /\ Len(f.sent) = 2}

\* C9, as claimed: the refund body has the amount object exactly when an amount
\* is passed and note_to_payer exactly when a note is passed; other keys are absent.
C9_RefundBodyWhenSupplied ==
  \A f \in RefundSent :
    RefundBodyIs(f, f.args.amount # Undefined, f.args.text # Undefined)

\* C9, amended: the refund body has the amount object exactly when a non-empty
\* amount is passed and note_to_payer exactly when a non-empty note is passed;
\* a currency passed without such an amount never appears.
C9_RefundBody ==
  \A f \in RefundSent :
    RefundBodyIs(f, f.args.amount \notin {Undefined, ""}, f.args.text \notin {Undefined, ""})

\* a refund called with the empty amount and currency EUR sent the body {}
C9_Witness ==
  \E f \in RefundSent :
    /\ f.args.amount = "" /\ f.args.currency = "EUR" /\ f.args.text = Undefined
    /\ DOMAIN JSONparse(f.sent[2].body) = {}

\* the token stage of frame f failed
TokenStageFailed(f) ==
  \/ f.completion # <<>> /\ f.tokenResp = <<>> /\ f.op # ""
  \/ f.tokenResp # <<>> /\ (~Ok(f.tokenResp[1].status) \/ ~IsJson(f.tokenResp[1].text))

C10_Ordered ==
  \A f \in OpFrames :
    /\ Len(f.sent) \in {0, 1, 2}
    /\ Len(f.sent) = 0 <=> f.pc = "config_await"
    /\ Len(f.sent) >= 1 => f.sent[1].kind = "token"
    /\ Len(f.sent) = 2 =>
         /\ f.sent[2].kind = "op"
         /\ f.tokenResp # <<>>
         /\ Ok(f.tokenResp[1].status)
         /\ IsJson(f.tokenResp[1].text)
         /\ f.sent[2].authorization =
              [scheme |-> "Bearer", token |-> JSONparse(f.tokenResp[1].text).access_token]
    /\ (f.tokenResp # <<>> /\ ~Ok(f.tokenResp[1].status)) =>
         (f.pc \in {"token_settled", "capture_returned", "done"} /\ Len(f.sent) = 1)
    /\ (f.completion # <<>> /\ TokenStageFailed(f)) => Len(f.sent) = 1

C10_NoRetry ==
  \A i \in Invs :
    /\ inv[i].pc = "done" => (inv'[i] = inv[i] \/ inv'[i] = Idle)
    /\ (TokenStageFailed(inv[i]) \/ inv[i].completion # <<>>) =>
          (inv'[i] = Idle \/ inv'[i].sent = inv[i].sent)

\* C10: within an invocation the token request comes first and once; the
\* operation request is sent once, only after a 2xx token response whose body
\* parsed, with Bearer and that response's access_token; a non-2xx token
\* response is not parsed; after a failure the invocation sends nothing more.
C10_OnceInOrder == [](C10_Ordered) /\ [][C10_NoRetry]_vars

\* an operation whose fetch rejected after the second token was obtained ended
\* with the two requests it had sent
C10_Witness ==
  \E f \in EndedOps :
    /\ Len(f.sent) = 2
    /\ f.opResp = <<>>
    /\ f.sent[2].authorization = [scheme |-> "Bearer", token |-> "A21-second"]
    /\ JSONparse(f.tokenResp[1].text).access_token = "A21-second"

\* /success requests with a token whose capture returned a success envelope
CapturedSuccess ==
  {f \in AnsweredSuccess :
     /\ ~Falsy(f.token)
     /\ f.completion[1].kind = "return"
     /\ EnvelopeOf(f).success}

\* the capture request of captureOrder(token)
IsCaptureOf(request, token) ==
  /\ request.kind = "op"
  /\ request.method = "POST"
  /\ request.path = <<"/v2/checkout/orders/", token, "/capture">>

\* C11: whenever the capture of a /success request with a token returns a
\* success envelope, the response is the success page, status 200, text/html,
\* with the token as order ID, data.status and the value and currency of the
\* first capture of the first purchase unit; captureOrder ran once with the
\* token as orderId and nothing else was sent to PayPal.
C11_SuccessPage ==
  \A f \in CapturedSuccess :
    LET r == f.response[1]
        data == EnvelopeOf(f).data
    IN  /\ r.status = 200
        /\ r.contentType = "text/html"
        /\ r.body.title = "Payment Successful"
        /\ r.body.orderId = f.token
        /\ r.body.status = ToStr(Prop(data, "status"))
        /\ r.body.amount = <<data.purchase_units[1].payments.captures[1].amount.value,
                             data.purchase_units[1].payments.captures[1].amount.currency_code>>
        /\ f.op = "capturePaypalOrder" /\ f.args.id = f.token
        /\ Len(f.sent) = 2
        /\ f.sent[1].kind = "token"
        /\ IsCaptureOf(f.sent[2], f.token)

\* the configuration the environment gives when it is read
ConfigOfEnv(e) ==
  [mode |-> IF e.PAYPAL_MODE \in {"sandbox", "live"} THEN e.PAYPAL_MODE ELSE "sandbox",
   clientId |-> e.PAYPAL_CLIENT_ID,
   clientSecret |-> e.PAYPAL_CLIENT_SECRET]

\* slot i starts an operation in this step
StartsOperation(i) == inv[i].pc = "idle" /\ inv'[i].pc = "config_await"

\* once an operation has been invoked the configuration is resolved, and every
\* request in flight carries the credentials of that one configuration
C12_Resolved ==
  \A f \in OpFrames :
    /\ paypalConfig # <<>>
    /\ f.config = paypalConfig
    /\ Len(f.sent) >= 1 =>
         f.sent[1].authorization.credentials =
           [base64 |-> <<paypalConfig[1].clientId, ":", paypalConfig[1].clientSecret>>]

\* the configuration changes only from null, in the step that starts an
\* operation, to what the environment holds at that moment
C12_ResolvedOnce ==
  /\ paypalConfig # <<>> => paypalConfig' = paypalConfig
  /\ paypalConfig' # paypalConfig =>
       /\ paypalConfig = <<>>
       /\ paypalConfig' = <<ConfigOfEnv(env)>>
       /\ \E i \in Invs : StartsOperation(i)
  /\ (paypalConfig = <<>> /\ \E i \in Invs : StartsOperation(i)) => paypalConfig' # <<>>

\* C12: the configuration is resolved at most once per instance, by the first
\* operation invocation, from the mode (sandbox when absent or empty), client
\* ID and client secret of the environment; it keeps that value in every later
\* state, whatever operations run and however the environment changes.
C12_ConfigResolvedOnce == [](C12_Resolved) /\ [][C12_ResolvedOnce]_vars

\* an operation runs against the sandbox configuration resolved earlier while
\* the environment now holds the live bindings
C12_Witness ==
  \E f \in OpFrames :
    /\ env.PAYPAL_MODE = "live"
    /\ paypalConfig = << [mode |-> "sandbox", clientId |-> "sb-id", clientSecret |-> "sb-secret"] >>
    /\ f.pc = "token_fetch"
    /\ lastToken # <<>>
    /\ f.sent[1].host = SandboxHost

\* the envelopes the responses to the own outbound calls of frame f allow
OwnEnvelopes(f) ==
  IF OpParsed(f)
  THEN {[success |-> Ok(f.opResp[1].status), data |-> JSONparse(f.opResp[1].text)]}
  ELSE {[success |-> FALSE, error |-> ErrorPrefix(f.op) \o <<m>>] : m \in ThrownMessages(f)}

\* the token responses with status 2xx, known by their access_token
IssuedTokens == {JSONparse(r.text).access_token : r \in {t \in TokenResponses : Ok(t.status) /\ IsJson(t.text)}}

\* C13: however invocations interleave at their outbound calls, each returns
\* the envelope its own responses determine (a token request issued in
\* parallel by another invocation never makes one report an error), the bearer
\* token it sends is the access_token of its own 2xx token response, never
\* one of a failed token request, and all invocations use the one resolved
\* configuration.
C13_RaceFree ==
  /\ \A f \in EndedOps :
       /\ f.completion[1].kind = "return"
       /\ EnvelopeOf(f) \in OwnEnvelopes(f)
  /\ \A f \in OpFrames :
       /\ paypalConfig # <<>>
       /\ \A k \in 1..Len(f.sent) : f.sent[k].host = ApiHost(paypalConfig[1])
       /\ Len(f.sent) >= 1 => f.sent[1].authorization.credentials = btoa(paypalConfig[1])
       /\ Len(f.sent) = 2 =>
            /\ f.tokenResp # <<>>
            /\ Ok(f.tokenResp[1].status)
            /\ f.sent[2].authorization.token = JSONparse(f.tokenResp[1].text).access_token
            /\ f.sent[2].authorization.token \in IssuedTokens

\* three invocations overlap: the second one's token request was refused (401)
\* and it has returned its own error, the first one holds a token and the 2xx
\* response of its operation and is about to return, and a /success request
\* has started and has sent nothing yet
C13_Witness ==
  /\ inv[3].pc = "config_await"
  /\ inv[3].handler = "fetch"
  /\ inv[1].pc = "op_json"
  /\ inv[1].accessToken = "A21-first"
  /\ inv[1].opResp[1].status = 200
  /\ inv[2].pc = "done"
  /\ inv[2].op = "getPaypalOrder"
  /\ inv[2].tokenResp # <<>> /\ inv[2].tokenResp[1].status = 401
  /\ EnvelopeOf(inv[2]).error[Len(EnvelopeOf(inv[2]).error)] = "Failed to get PayPal access token"

====
